---- MODULE Spec2Model ----
(***************************************************************************)
(* FluoraServer (fluoraled/fluora_state.py): the UDP listener that         *)
(* reassembles the plant's state update from a run of datagrams, decodes   *)
(* it as JSON, keeps it in plant_state and publishes it to MQTT.           *)
(*                                                                         *)
(* Text is a sequence of tokens: one token stands for one lexical unit of  *)
(* the JSON text on the wire (a brace, a colon, a quoted name, a numeral). *)
(* A Python dict is a sequence of <<key, value>> pairs in insertion order, *)
(* which is the order dict.values() and json.dumps walk it in.             *)
(***************************************************************************)
EXTENDS Integers, Sequences, FiniteSets, TLC

VARIABLES
    packet_assemble,  \* self.packet_assemble: dict, marker -> payload text
    json_payload,     \* self.json_payload: the text joined at the last final datagram
    plant_state,      \* self.plant_state: the last decoded document
    mqtt_retained,    \* what mqtt_client.publish last sent (retain=True): <<topic, payload>>
    udp_packet_seq,   \* local of the last process_request call: data[3]
    udp_payload,      \* local of the last process_request call: the decoded data[4:]
    outcome,          \* how the last process_request call ended
    arrivals,         \* history: <<udp_packet_seq, udp_payload>> of the calls that decoded
                      \* their payload, from the last one with marker 0 on
    error_seen,       \* history: some call ended in a decode error
    late,             \* history: the keys of the buffer whose value came with a
                      \* datagram of marker 1..11 that arrived after a marker 12 and
                      \* before the next marker 0 (now), and what these keys were
                      \* when the last marker 0 arrived (prev)
    subscribed,       \* the MQTT thread: connected and subscribed to the commands topic
    mqtt_status,      \* the MQTT thread: the retained publish on the status topic
    plant_command,    \* the MQTT thread: the last call it made on fluora_client
    device_doc,       \* the plant: the document it is sending
    next_marker,      \* the plant: the marker of the datagram it sends next
    held,             \* the network: datagrams sent and not yet delivered
    held_age,         \* the network: how many datagrams the plant sent since it kept one back
    faults            \* the network: how many datagrams it has mistreated

vars == <<packet_assemble, json_payload, plant_state, mqtt_retained,
          udp_packet_seq, udp_payload, outcome, arrivals, error_seen, late,
          subscribed, mqtt_status, plant_command,
          device_doc, next_marker, held, held_age, faults>>

----------------------------------------------------------------------------
(* Bounds of the model. *)

\* How many datagrams the network may lose, delay, duplicate, corrupt or inject.
MaxFaults == 1

\* How many later datagrams of the plant may overtake a delayed one.
MaxDelay == 2

----------------------------------------------------------------------------
(* Constants of the program. *)

\* if udp_packet_seq == 0: the datagram that starts an update
StartMarker == 0
\* if udp_packet_seq == 12: the datagram that ends an update
FinalMarker == 12
\* udp_packet_seq = data[3]: the bytes before the marker
HeaderLen == 3

\* A marker that is neither the first nor the last of an update and that the
\* plant never sends.
OtherMarker == FinalMarker + 1

\* A byte that no UTF-8 text contains.
InvalidByte == "0xFF"

----------------------------------------------------------------------------
(* Python dict: insertion-ordered. *)

DictKeys(d) == {d[i][1] : i \in 1..Len(d)}

DictIndex(d, k) == CHOOSE i \in 1..Len(d) : d[i][1] = k

DictGet(d, k) == d[DictIndex(d, k)][2]

\* d[k] = v on a key that is new appends it; on a key that d holds it replaces
\* the value and leaves the key where it was inserted first.
DictSetAppendsAlways(d, k, v) == Append(d, <<k, v>>)

DictSet(d, k, v) ==
    IF k \in DictKeys(d)
    THEN [d EXCEPT ![DictIndex(d, k)] = <<k, v>>]
    ELSE Append(d, <<k, v>>)

\* self.packet_assemble.clear()
DictClearKeepsEntries == packet_assemble

DictClear == <<>>

RECURSIVE Concat(_)
Concat(ss) == IF ss = <<>> THEN <<>> ELSE Head(ss) \o Concat(Tail(ss))

\* "".join(d.values()): the values in insertion order
JoinValuesReversed(d) == Concat([i \in 1..Len(d) |-> d[Len(d) + 1 - i][2]])

JoinValues(d) == Concat([i \in 1..Len(d) |-> d[i][2]])

----------------------------------------------------------------------------
(* JSON values, json.loads and json.dumps. *)

\* A value is <<type, content>>: a dict's content is its <<name, value>> pairs,
\* a list's its items.
JDict(pairs) == <<"dict", pairs>>
JList(items) == <<"list", items>>
JInt(n)      == <<"int", n>>
JStr(s)      == <<"str", s>>
JNone        == <<"None", 0>>

TypeOf(val) == val[1]
ContentOf(val) == val[2]

\* The numerals of the texts and the numbers they denote.
Numerals == {"1", "2", "3", "4", "7"}
NumeralValue == [c \in Numerals |->
    CASE c = "1" -> 1 [] c = "2" -> 2 [] c = "3" -> 3 [] c = "4" -> 4 [] c = "7" -> 7]
NumeralOf(n) == CHOOSE c \in Numerals : NumeralValue[c] = n

\* The quoted names of the texts: the keys of the plant's document and the
\* entities of the commands.
Names == {"plant_power", "plant_reboot", "plant_brightness", "manual_animation",
          "model", "rssi", "network", "macAddress", "audio", "filter", "release",
          "gain", "attack", "value", "lightSensor", "enabled", "engine",
          "brightness", "isDisplaying", "manualMode", "loadedAnimationIndex",
          "activeAnimationIndex", "dashboard", "bloomId", "speedId", "sizeId",
          "palette", "saturation", "hue"}

ParseOk(val, pos) == [ok |-> TRUE, val |-> val, pos |-> pos]
ParseFail == [ok |-> FALSE, val |-> JNone, pos |-> 0]

At(s, i) == IF i \in 1..Len(s) THEN s[i] ELSE "<end>"

RECURSIVE ParseValue(_, _)
RECURSIVE ParseMembers(_, _, _)
RECURSIVE ParseElements(_, _, _)

\* The members of an object from position i on, after "{" or ",": a name, a
\* colon, a value, then "," and more members or "}". A name that comes twice
\* keeps its last value.
ParseMembers(s, i, acc) ==
    IF At(s, i) \in Names /\ At(s, i + 1) = ":"
    THEN LET r == ParseValue(s, i + 2) IN
         IF ~r.ok THEN ParseFail
         ELSE LET acc2 == DictSet(acc, s[i], r.val) IN
              CASE At(s, r.pos) = "," -> ParseMembers(s, r.pos + 1, acc2)
                [] At(s, r.pos) = "}" -> ParseOk(JDict(acc2), r.pos + 1)
                [] OTHER -> ParseFail
    ELSE ParseFail

\* The elements of an array from position i on, after "[" or ",".
ParseElements(s, i, acc) ==
    LET r == ParseValue(s, i) IN
    IF ~r.ok THEN ParseFail
    ELSE LET acc2 == Append(acc, r.val) IN
         CASE At(s, r.pos) = "," -> ParseElements(s, r.pos + 1, acc2)
           [] At(s, r.pos) = "]" -> ParseOk(JList(acc2), r.pos + 1)
           [] OTHER -> ParseFail

\* One JSON value starting at position i.
ParseValue(s, i) ==
    LET c == At(s, i) IN
    CASE c = "{" -> IF At(s, i + 1) = "}" THEN ParseOk(JDict(<<>>), i + 2)
                    ELSE ParseMembers(s, i + 1, <<>>)
      [] c = "[" -> IF At(s, i + 1) = "]" THEN ParseOk(JList(<<>>), i + 2)
                    ELSE ParseElements(s, i + 1, <<>>)
      [] c \in Numerals -> ParseOk(JInt(NumeralValue[c]), i + 1)
      [] c \in Names -> ParseOk(JStr(c), i + 1)
      [] c = "null" -> ParseOk(JNone, i + 1)
      [] OTHER -> ParseFail

\* json.loads(text): the value, or JSONDecodeError when the text is not one
\* JSON value followed by nothing.
JsonLoads(text) ==
    LET r == ParseValue(text, 1) IN
    IF r.ok /\ r.pos = Len(text) + 1
    THEN [ok |-> TRUE, val |-> r.val]
    ELSE [ok |-> FALSE, val |-> JNone]

RECURSIVE JsonDumps(_)
RECURSIVE DumpMembers(_, _)
RECURSIVE DumpElements(_, _)

DumpMembers(pairs, i) ==
    IF i > Len(pairs) THEN <<>>
    ELSE (IF i > 1 THEN <<",">> ELSE <<>>)
         \o <<pairs[i][1], ":">> \o JsonDumps(pairs[i][2]) \o DumpMembers(pairs, i + 1)

DumpElements(items, i) ==
    IF i > Len(items) THEN <<>>
    ELSE (IF i > 1 THEN <<",">> ELSE <<>>)
         \o JsonDumps(items[i]) \o DumpElements(items, i + 1)

\* json.dumps(value): the text of a value.
JsonDumps(val) ==
    CASE TypeOf(val) = "dict" -> <<"{">> \o DumpMembers(ContentOf(val), 1) \o <<"}">>
      [] TypeOf(val) = "list" -> <<"[">> \o DumpElements(ContentOf(val), 1) \o <<"]">>
      [] TypeOf(val) = "int" -> <<NumeralOf(ContentOf(val))>>
      [] TypeOf(val) = "str" -> <<ContentOf(val)>>
      [] TypeOf(val) = "None" -> <<"null">>

----------------------------------------------------------------------------
(* The plant: the document it sends and the datagrams it cuts it into. *)

Leaf(k, v) == <<k, ":", v>>
Obj(k, members) == <<k, ":", "{">> \o members \o <<"}">>
ValueObj(k, v) == Obj(k, Leaf("value", v))

RECURSIVE CommaJoin(_)
CommaJoin(parts) ==
    IF Len(parts) = 0 THEN <<>>
    ELSE IF Len(parts) = 1 THEN parts[1]
    ELSE parts[1] \o <<",">> \o CommaJoin(Tail(parts))

\* The plant's state document: numeral a at the paths every firmware sends,
\* numeral b at the dashboard and palette controls; ids are the dashboard
\* controls this firmware has.
PlantDoc(a, b, ids) ==
    <<"{">> \o CommaJoin(<<
        Leaf("model", a),
        Leaf("rssi", a),
        Obj("network", Leaf("macAddress", a)),
        Obj("audio", CommaJoin(<<ValueObj("filter", a), ValueObj("release", a),
                                 ValueObj("gain", a), ValueObj("attack", a)>>)),
        Obj("lightSensor", ValueObj("enabled", a)),
        Obj("engine", CommaJoin(<<
            ValueObj("brightness", a),
            ValueObj("isDisplaying", a),
            Obj("manualMode", CommaJoin(<<
                Leaf("loadedAnimationIndex", a),
                ValueObj("activeAnimationIndex", a),
                Obj("dashboard", CommaJoin([i \in 1..Len(ids) |-> ValueObj(ids[i], b)])),
                Obj("palette", CommaJoin(<<ValueObj("saturation", b),
                                           ValueObj("hue", b)>>))>>))>>))
    >>) \o <<"}">>

FullDoc == PlantDoc("1", "2", <<"bloomId", "speedId", "sizeId">>)
NoSpeedDoc == PlantDoc("3", "4", <<"bloomId", "sizeId">>)
NumberDoc == <<"7">>

DeviceDocs == {FullDoc, NoSpeedDoc, NumberDoc}

\* The document the plant sends after doc: its state as a firmware with every
\* control reports it, then as one without the speed control does, then a bare
\* number, and round again.
NextDoc(doc) ==
    CASE doc = FullDoc -> NoSpeedDoc
      [] doc = NoSpeedDoc -> NumberDoc
      [] OTHER -> FullDoc

\* The canonical fields and the path of each in the document.
PathTable ==
    [model              |-> <<"model">>,
     rssi               |-> <<"rssi">>,
     macAddress         |-> <<"network", "macAddress">>,
     audioFilter        |-> <<"audio", "filter", "value">>,
     audioRelease       |-> <<"audio", "release", "value">>,
     audioGain          |-> <<"audio", "gain", "value">>,
     audioAttack        |-> <<"audio", "attack", "value">>,
     lightSensorEnabled |-> <<"lightSensor", "enabled", "value">>,
     brightness         |-> <<"engine", "brightness", "value">>,
     mainLightOn        |-> <<"engine", "isDisplaying", "value">>,
     animationMode      |-> <<"engine", "manualMode", "loadedAnimationIndex">>,
     activeAnimation    |-> <<"engine", "manualMode", "activeAnimationIndex", "value">>,
     animationBloom     |-> <<"engine", "manualMode", "dashboard", "bloomId", "value">>,
     animationSpeed     |-> <<"engine", "manualMode", "dashboard", "speedId", "value">>,
     animationSize      |-> <<"engine", "manualMode", "dashboard", "sizeId", "value">>,
     paletteSaturation  |-> <<"engine", "manualMode", "palette", "saturation", "value">>,
     paletteHue         |-> <<"engine", "manualMode", "palette", "hue", "value">>]

Fields == DOMAIN PathTable

\* The fields whose controls vary with the firmware.
ControlFields == {"animationBloom", "animationSpeed", "animationSize",
                  "paletteSaturation", "paletteHue"}

\* The value at a path of a decoded document, if the path is in it.
RECURSIVE PathGet(_, _)
PathGet(val, path) ==
    IF path = <<>> THEN [found |-> TRUE, val |-> val]
    ELSE IF TypeOf(val) = "dict" /\ Head(path) \in DictKeys(ContentOf(val))
         THEN PathGet(DictGet(ContentOf(val), Head(path)), Tail(path))
         ELSE [found |-> FALSE, val |-> JNone]

\* The plant cuts a document into FinalMarker + 1 datagrams of equal length
\* (the last ones shorter, or empty).
ChunkLen(doc) == (Len(doc) + FinalMarker) \div (FinalMarker + 1)

Fragment(doc, m) ==
    LET from == m * ChunkLen(doc) + 1
        to   == IF (m + 1) * ChunkLen(doc) < Len(doc) THEN (m + 1) * ChunkLen(doc)
                ELSE Len(doc)
    IN SubSeq(doc, from, to)

\* A datagram: HeaderLen bytes, the marker, the payload.
Datagram(m, payload) == [i \in 1..HeaderLen |-> 0] \o <<m>> \o payload

----------------------------------------------------------------------------
(* FluoraServer.process_request *)

\* udp_payload_raw.decode("utf-8")
Utf8Decode(raw) ==
    [ok |-> \A i \in 1..Len(raw) : raw[i] # InvalidByte, text |-> raw]

\* if udp_packet_seq == 0
IsStart(seq) == seq = StartMarker

\* if udp_packet_seq == 12
IsFinalFromEleven(seq) == seq >= FinalMarker - 1

IsFinalWhenStarted(seq) == seq = FinalMarker /\ StartMarker \in DictKeys(packet_assemble)

IsFinal(seq) == seq = FinalMarker

\* The buffer after the first if: cleared and holding the payload under key 0
\* when the marker is 0, as it was otherwise.
AfterStart(seq, payload) ==
    IF IsStart(seq) THEN DictSet(DictClear, StartMarker, payload)
    ELSE packet_assemble

\* self.plant_state = json.loads(self.json_payload): not assigned when
\* json.loads raises.
StateAfterLoadsAssignsAnyway(r) == r.val

StateAfterLoadsNeverAssigns(r) == plant_state

StateAfterLoads(r) == IF r.ok THEN r.val ELSE plant_state

\* The topic of _mqtt_publish_message("plant_state", ...).
StateTopic == "client_name/plant_state"

\* plant_payload = json.dumps(self.plant_state), of the state just assigned
PlantPayloadOfOldState(state) == JsonDumps(plant_state)

PlantPayload(state) == JsonDumps(state)

ProcessRequest(data) ==
    LET seq == data[HeaderLen + 1]
        raw == SubSeq(data, HeaderLen + 2, Len(data))
        dec == Utf8Decode(raw)
    IN
    /\ udp_packet_seq' = seq
    /\ IF ~dec.ok
       THEN \* UnicodeDecodeError leaves process_request before anything is stored
            /\ outcome' = "UnicodeDecodeError"
            /\ error_seen' = TRUE
            /\ UNCHANGED <<packet_assemble, json_payload, plant_state, mqtt_retained,
                           udp_payload, arrivals, late>>
       ELSE LET payload == dec.text
                started == AfterStart(seq, payload)
            IN
            /\ udp_payload' = payload
            /\ arrivals' = IF seq = StartMarker THEN <<<<seq, payload>>>>
                           ELSE Append(arrivals, <<seq, payload>>)
            /\ late' = LET kept == late.now \cap DictKeys(started) IN
                       CASE seq = StartMarker -> [now |-> kept, prev |-> late.now]
                         [] seq \in (StartMarker + 1)..(FinalMarker - 1) ->
                                [now |-> IF \E i \in 1..Len(arrivals) :
                                                arrivals[i][1] = FinalMarker
                                         THEN kept \cup {seq}
                                         ELSE kept \ {seq},
                                 prev |-> late.prev]
                         [] OTHER -> [now |-> kept, prev |-> late.prev]
            /\ IF IsFinal(seq)
               THEN LET stored == DictSet(started, FinalMarker, payload)
                        joined == JoinValues(stored)
                        r == JsonLoads(joined)
                    IN
                    /\ packet_assemble' = stored
                    /\ json_payload' = joined
                    /\ plant_state' = StateAfterLoads(r)
                    /\ IF r.ok
                       THEN /\ mqtt_retained' = <<StateTopic, PlantPayload(StateAfterLoads(r))>>
                            /\ outcome' = "published"
                            /\ UNCHANGED error_seen
                       ELSE \* except json.JSONDecodeError: logging.error, return
                            /\ UNCHANGED mqtt_retained
                            /\ outcome' = "JSONDecodeError logged"
                            /\ error_seen' = TRUE
               ELSE /\ packet_assemble' = DictSet(started, seq, payload)
                    /\ outcome' = "stored"
                    /\ UNCHANGED <<json_payload, plant_state, mqtt_retained, error_seen>>

----------------------------------------------------------------------------
(* The plant and the network between it and the server. *)

program == <<packet_assemble, json_payload, plant_state, mqtt_retained,
             udp_packet_seq, udp_payload, outcome, arrivals, error_seen, late>>

mqtt_thread == <<subscribed, mqtt_status, plant_command>>

\* The datagram the plant sends next.
CurrentDatagram == Datagram(next_marker, Fragment(device_doc, next_marker))

\* The plant goes on to its next datagram; after the last one of a document it
\* starts another document. A datagram the network keeps back is overtaken.
PlantAdvance ==
    /\ held = <<>> \/ held_age < MaxDelay
    /\ next_marker' = IF next_marker = FinalMarker THEN StartMarker ELSE next_marker + 1
    /\ device_doc' = IF next_marker = FinalMarker THEN NextDoc(device_doc) ELSE device_doc
    /\ held_age' = IF held = <<>> THEN 0 ELSE held_age + 1

\* The plant's next datagram reaches the server at once.
Deliver ==
    /\ ProcessRequest(CurrentDatagram)
    /\ PlantAdvance
    /\ UNCHANGED <<held, faults, mqtt_thread>>

\* The plant's next datagram never reaches the server.
Lose ==
    /\ faults < MaxFaults
    /\ faults' = faults + 1
    /\ PlantAdvance
    /\ UNCHANGED <<program, held, mqtt_thread>>

\* The network keeps the plant's next datagram back: later ones overtake it.
Hold ==
    /\ faults < MaxFaults
    /\ held = <<>>
    /\ held' = <<CurrentDatagram>>
    /\ faults' = faults + 1
    /\ PlantAdvance
    /\ UNCHANGED <<program, mqtt_thread>>

\* The datagram kept back reaches the server.
Release ==
    /\ held # <<>>
    /\ held_age > 0
    /\ ProcessRequest(held[1])
    /\ held' = <<>>
    /\ held_age' = 0
    /\ UNCHANGED <<device_doc, next_marker, faults, mqtt_thread>>

\* The datagram the server decoded last reaches it a second time.
LastDatagram == Datagram(arrivals[Len(arrivals)][1], arrivals[Len(arrivals)][2])

Duplicate ==
    /\ faults < MaxFaults
    /\ arrivals # <<>>
    /\ ProcessRequest(LastDatagram)
    /\ faults' = faults + 1
    /\ UNCHANGED <<device_doc, next_marker, held, held_age, mqtt_thread>>

\* A datagram with a marker the plant does not use reaches the server.
Stray ==
    /\ faults < MaxFaults
    /\ ProcessRequest(Datagram(OtherMarker, <<"}">>))
    /\ faults' = faults + 1
    /\ UNCHANGED <<device_doc, next_marker, held, held_age, mqtt_thread>>

\* The plant's next datagram reaches the server with a byte that is not UTF-8.
Corrupt ==
    /\ faults < MaxFaults
    /\ ProcessRequest(Datagram(next_marker,
                               Append(Fragment(device_doc, next_marker), InvalidByte)))
    /\ faults' = faults + 1
    /\ PlantAdvance
    /\ UNCHANGED <<held, mqtt_thread>>

-----------------------------------------------------------------------------
(* The MQTT network-loop thread: the callbacks of the client. *)

network == <<device_doc, next_marker, held, held_age, faults>>

StatusTopic == "client_name/status"

\* reason_code of the connect callback: 0 is success
ReasonCodes == {0, 5}

\* The payloads that arrive on the commands topic.
Commands ==
    { <<"{", "plant_power", ":", "1", "}">>,
      <<"{", "plant_power", ":", "enabled", "}">>,
      <<"{", "plant_brightness", ":", "2", "}">>,
      <<"{", "manual_animation", ":", "3", ",", "plant_reboot", ":", "1", "}">>,
      <<"{", "plant_power">>,
      <<"7">> }

\* _process_message(entity, value): the calls it makes on fluora_client; int()
\* and float() of a string that is no number raise ValueError, which is logged.
ProcessMessage(entity, value) ==
    CASE entity = "plant_power" ->
             IF TypeOf(value) = "int" THEN << <<"power", value>> >> ELSE <<>>
      [] entity = "plant_reboot" -> << <<"reboot", JNone>> >>
      [] entity = "plant_brightness" ->
             IF TypeOf(value) = "int"
             THEN << <<"brightness_set", <<"float", ContentOf(value)>> >> >>
             ELSE <<>>
      [] entity = "manual_animation" -> << <<"animation_set_manual", value>> >>
      [] OTHER -> <<>>

\* for entity, value in cmd_received.items(): self._process_message(entity, value)
\* A value that is no dict has no items(): the callback ends there.
CallsOf(r) ==
    IF r.ok /\ TypeOf(r.val) = "dict"
    THEN Concat([i \in 1..Len(ContentOf(r.val)) |->
                    ProcessMessage(ContentOf(r.val)[i][1], ContentOf(r.val)[i][2])])
    ELSE <<>>

\* _on_connect
OnConnect ==
    /\ ~subscribed
    /\ \E reason_code \in ReasonCodes :
           IF reason_code = 0
           THEN /\ mqtt_status' = <<StatusTopic, "online">>
                /\ subscribed' = TRUE
           ELSE UNCHANGED <<mqtt_status, subscribed>>
    /\ UNCHANGED <<program, network, plant_command>>

\* _on_disconnect: logs; the subscription ends with the connection
OnDisconnect ==
    /\ subscribed
    /\ subscribed' = FALSE
    /\ UNCHANGED <<program, network, mqtt_status, plant_command>>

\* _on_message
OnMessageStoresCommand ==
    /\ subscribed
    /\ \E payload \in Commands :
           LET cmd_received == JsonLoads(payload) IN
           /\ plant_command' = CallsOf(cmd_received)
           /\ plant_state' = IF cmd_received.ok THEN cmd_received.val ELSE plant_state
    /\ UNCHANGED <<packet_assemble, json_payload, mqtt_retained, udp_packet_seq,
                   udp_payload, outcome, arrivals, error_seen, late>>
    /\ UNCHANGED <<network, subscribed, mqtt_status>>

OnMessage ==
    /\ subscribed
    /\ \E payload \in Commands :
           LET cmd_received == JsonLoads(payload) IN
           plant_command' = CallsOf(cmd_received)
    /\ UNCHANGED <<program, network, subscribed, mqtt_status>>

-----------------------------------------------------------------------------

Init ==
    /\ packet_assemble = <<>>
    /\ json_payload = <<>>
    /\ plant_state = JDict(<<>>)
    /\ mqtt_retained = <<>>
    /\ udp_packet_seq = -1
    /\ udp_payload = <<>>
    /\ outcome = "none"
    /\ arrivals = <<>>
    /\ error_seen = FALSE
    /\ late = [now |-> {}, prev |-> {}]
    /\ subscribed = FALSE
    /\ mqtt_status = <<>>
    /\ plant_command = <<>>
    /\ device_doc \in DeviceDocs
    /\ next_marker \in {StartMarker, FinalMarker}
    /\ held = <<>>
    /\ held_age = 0
    /\ faults = 0

Next == Deliver \/ Lose \/ Hold \/ Release \/ Duplicate \/ Stray \/ Corrupt

Spec == Init /\ [][Next]_vars

\* The server thread receiving with the MQTT thread running beside it.
NextThreads == Deliver \/ OnConnect \/ OnDisconnect \/ OnMessage

SpecThreads == Init /\ [][NextThreads]_vars

----------------------------------------------------------------------------
(* What the claims speak of. *)

\* The last call joined a message: it had the final marker and decoded its payload.
Finalized == outcome \in {"published", "JSONDecodeError logged"}

\* This step is a process_request call with the final marker that decoded its payload.
FinalCallStep == udp_packet_seq' = FinalMarker /\ arrivals' # arrivals

\* A datagram with marker 0 has been processed.
StartSeen == arrivals # <<>> /\ arrivals[1][1] = StartMarker

MarkersOf(arr) == [i \in 1..Len(arr) |-> arr[i][1]]
PayloadsOf(arr) == [i \in 1..Len(arr) |-> arr[i][2]]

\* The calls since the last marker 0 brought 0, 1, ..., 12 in this order.
InOrderCycle == MarkersOf(arrivals) = [i \in 1..(FinalMarker + 1) |-> i - 1]

\* The calls since the last marker 0 brought 0 first, 12 last and each of
\* 1..11 once in between, in any order.
PermutedCycle ==
    /\ Len(arrivals) = FinalMarker + 1
    /\ arrivals[1][1] = StartMarker
    /\ arrivals[FinalMarker + 1][1] = FinalMarker
    /\ {arrivals[i][1] : i \in 1..Len(arrivals)} = StartMarker..FinalMarker

PayloadOfMarker(arr, m) == arr[CHOOSE i \in 1..Len(arr) : arr[i][1] = m][2]

\* The payloads of a cycle in ascending marker order, joined.
AscendingJoin(arr) ==
    Concat([i \in 1..(FinalMarker + 1) |-> PayloadOfMarker(arr, i - 1)])

\* The value plant_state holds for a canonical field.
FieldOf(state, f) == PathGet(state, PathTable[f])

\* The document json.loads reads out of a text.
Decoded(text) == JsonLoads(text).val
WellFormed(text) == JsonLoads(text).ok

----------------------------------------------------------------------------
(* The claims. *)

\* C1: when a cycle starts with marker 0, ends with marker 12 and has each of
\* the markers 1..11 once in between, in any arrival order, the message joined
\* at marker 12 is the payloads in ascending marker order.
C1_OrderIndependent ==
    (Finalized /\ PermutedCycle) => json_payload = AscendingJoin(arrivals)

\* C2: when the markers 0, 1, ..., 12 arrive in ascending order, each once, the
\* message joined at marker 12 is the 13 payloads in that order, whatever the
\* buffer held before the marker 0.
C2_InOrder ==
    (Finalized /\ InOrderCycle) => json_payload = Concat(PayloadsOf(arrivals))

C2_Witness ==
    /\ Finalized /\ InOrderCycle
    /\ json_payload = NoSpeedDoc
    /\ FieldOf(plant_state, "model").found

\* C3: a call with marker 0 leaves the buffer with the one entry 0 -> payload,
\* and from then on every entry of the buffer, so every part of the next
\* message, is a payload that arrived with or after that marker 0.
C3_ResetOnStart ==
    /\ (outcome = "stored" /\ udp_packet_seq = StartMarker)
          => packet_assemble = <<<<StartMarker, udp_payload>>>>
    /\ StartSeen =>
          \A i \in 1..Len(packet_assemble) :
              \E j \in 1..Len(arrivals) : arrivals[j] = packet_assemble[i]
    /\ (Finalized /\ StartSeen) =>
          json_payload = Concat(PayloadsOf(packet_assemble))

C3_Witness ==
    /\ outcome = "stored" /\ udp_packet_seq = StartMarker
    /\ json_payload # <<>>
    /\ arrivals = <<<<StartMarker, udp_payload>>>>

\* C4: after a call with marker 12, whether the decode succeeded or not, the
\* buffer is empty.
C4_ClearedAfterFinal == Finalized => packet_assemble = <<>>

\* C5: a call whose marker is not 12 joins no message, decodes nothing, leaves
\* json_payload and plant_state as they were and publishes nothing.
C5_NoPartialMessage ==
    [][udp_packet_seq' # FinalMarker =>
         /\ json_payload' = json_payload
         /\ plant_state' = plant_state
         /\ mqtt_retained' = mqtt_retained
         /\ outcome' \in {"none", "stored", "UnicodeDecodeError"}]_vars

C5_Witness ==
    /\ outcome = "stored"
    /\ udp_packet_seq \in (StartMarker + 1)..(FinalMarker - 1)
    /\ Len(packet_assemble) > 1
    /\ mqtt_retained # <<>>

\* C6: when the message joined at a marker-12 call is not well-formed JSON,
\* plant_state is what it was before the call, nothing is published, and the
\* failure is logged, not raised.
C6_DecodeFailureKeepsState ==
    [][(FinalCallStep /\ ~WellFormed(json_payload')) =>
         /\ plant_state' = plant_state
         /\ mqtt_retained' = mqtt_retained
         /\ outcome' = "JSONDecodeError logged"]_vars

C6_Witness ==
    /\ outcome = "JSONDecodeError logged"
    /\ ~WellFormed(json_payload)
    /\ plant_state # JDict(<<>>)
    /\ mqtt_retained = <<StateTopic, JsonDumps(plant_state)>>

\* C7: a publish happens once for a cycle that started with marker 0, ended
\* with marker 12 and decoded, and never otherwise: the call that publishes is
\* the only marker-12 call since the last marker 0.
C7_OncePerCycle ==
    outcome = "published" =>
        /\ StartSeen
        /\ Cardinality({i \in 1..Len(arrivals) : arrivals[i][1] = FinalMarker}) = 1

\* C8: when a decoded document lacks the path of a field, the field keeps the
\* value it had in plant_state before the update, and every field whose path
\* the document has takes the document's value.
C8_PreserveIfAbsent ==
    [][(FinalCallStep /\ WellFormed(json_payload') /\ TypeOf(Decoded(json_payload')) = "dict") =>
         \A f \in Fields :
             FieldOf(plant_state', f) =
                 IF FieldOf(Decoded(json_payload'), f).found
                 THEN FieldOf(Decoded(json_payload'), f)
                 ELSE FieldOf(plant_state, f)]_vars

\* C9: after a cycle whose message is the document with every path of the
\* path table, plant_state holds, at the path of each of the 17 fields, the
\* number the document's text has there.
C9_FullProjection ==
    (outcome = "published" /\ json_payload = FullDoc) =>
        \A f \in Fields :
            FieldOf(plant_state, f) =
                [found |-> TRUE,
                 val |-> JInt(IF f \in ControlFields THEN 2 ELSE 1)]

C9_Witness ==
    /\ outcome = "published"
    /\ json_payload = FullDoc
    /\ Cardinality(Fields) = 17
    /\ mqtt_retained = <<StateTopic, FullDoc>>

\* C10: when the message is well-formed JSON whose top-level value is not a
\* key/value structure, plant_state is left as it was and nothing is published.
C10_NonStructureIsError ==
    [][(FinalCallStep /\ WellFormed(json_payload') /\ TypeOf(Decoded(json_payload')) # "dict") =>
         /\ plant_state' = plant_state
         /\ mqtt_retained' = mqtt_retained
         /\ outcome' # "published"]_vars

\* C11: bytes that are not valid UTF-8 are handled inside process_request: no
\* call ends with the UnicodeDecodeError leaving process_request.
C11_DecodeErrorHandledInside == outcome # "UnicodeDecodeError"

\* The payload of the last datagram with marker m among the calls.
LastPayloadOfMarker(arr, m) ==
    LET at == {i \in 1..Len(arr) : arr[i][1] = m}
    IN arr[CHOOSE i \in at : \A j \in at : j <= i][2]

\* The calls since the last marker 0 brought 0 first and once, 12 last and once,
\* each of 1..11 at least once and some of them more than once, and no other marker.
CycleWithRepeats ==
    /\ StartSeen
    /\ arrivals[Len(arrivals)][1] = FinalMarker
    /\ \A i \in 2..(Len(arrivals) - 1) :
           arrivals[i][1] \in (StartMarker + 1)..(FinalMarker - 1)
    /\ \A m \in StartMarker..FinalMarker : \E i \in 1..Len(arrivals) : arrivals[i][1] = m
    /\ Len(arrivals) > FinalMarker + 1

\* C12: when datagrams repeat a marker m of 1..11 within one cycle, the message
\* joined at marker 12 has, at each marker's position in ascending order, the
\* payload of the last datagram with that marker, and none of the earlier ones.
C12_LastWriteWins ==
    (Finalized /\ CycleWithRepeats) =>
        json_payload =
            Concat([i \in 1..(FinalMarker + 1) |-> LastPayloadOfMarker(arrivals, i - 1)])

\* The entries of a dict other than the one of key k, in their order.
WithoutKey(d, k) ==
    LET Other(e) == e[1] # k
    IN SelectSeq(d, Other)

\* C13: every process_request call with marker 12 (whose payload decodes as
\* UTF-8) stores its payload under key 12 beside whatever the buffer holds,
\* joins the buffer's values and tries to decode the joined text, publishing
\* when it parses and logging when it does not, whether or not the buffer holds
\* marker 0 or the markers between.
C13_FinalMarkerAlone ==
    [][FinalCallStep =>
          /\ WithoutKey(packet_assemble', FinalMarker) = WithoutKey(packet_assemble, FinalMarker)
          /\ Len(packet_assemble') = Len(WithoutKey(packet_assemble, FinalMarker)) + 1
          /\ DictGet(packet_assemble', FinalMarker) = udp_payload'
          /\ json_payload' = Concat(PayloadsOf(packet_assemble'))
          /\ outcome' = IF WellFormed(json_payload') THEN "published"
                        ELSE "JSONDecodeError logged"]_vars

\* A marker 12 was processed on an empty buffer, no marker 0 seen.
C13_Witness ==
    /\ Finalized
    /\ udp_packet_seq = FinalMarker
    /\ ~StartSeen
    /\ DictKeys(packet_assemble) = {FinalMarker}
    /\ json_payload = udp_payload

\* This step is a process_request call with a marker other than 0 and 12 that
\* decoded its payload.
AccumulateStep ==
    /\ arrivals' # arrivals
    /\ udp_packet_seq' \notin {StartMarker, FinalMarker}

\* C14: a process_request call with a marker m other than 0 and 12 sets the
\* buffer entry of key m to the datagram's payload and changes nothing else:
\* the other entries, json_payload and plant_state stay and nothing is published.
C14_AccumulateFrame ==
    [][AccumulateStep =>
          /\ WithoutKey(packet_assemble', udp_packet_seq') =
                 WithoutKey(packet_assemble, udp_packet_seq')
          /\ Len(packet_assemble') = Len(WithoutKey(packet_assemble, udp_packet_seq')) + 1
          /\ DictGet(packet_assemble', udp_packet_seq') = udp_payload'
          /\ UNCHANGED <<json_payload, plant_state, mqtt_retained>>
          /\ outcome' = "stored"]_vars

\* A datagram with a marker above 12 was stored beside other entries.
C14_Witness ==
    /\ outcome = "stored"
    /\ udp_packet_seq = OtherMarker
    /\ OtherMarker \in DictKeys(packet_assemble)
    /\ Len(packet_assemble) > 1

\* What process_request works on.
reassembly == <<packet_assemble, json_payload, plant_state>>

\* C15: the buffer, json_payload and plant_state are written by process_request
\* only: a step of an MQTT callback leaves them as they are, and a step that
\* changes them is one process_request call, which changes nothing of the MQTT
\* thread, so the calls follow one another with no callback effect in between.
C15_SingleWriter ==
    [][/\ mqtt_thread' # mqtt_thread => UNCHANGED <<reassembly, arrivals, udp_packet_seq>>
       /\ reassembly' # reassembly =>
              /\ arrivals' # arrivals
              /\ packet_assemble' = DictSet(AfterStart(udp_packet_seq', udp_payload'),
                                            udp_packet_seq', udp_payload')
              /\ UNCHANGED mqtt_thread]_vars

\* A command was received while a cycle was being assembled, and the cycle went on.
C15_Witness ==
    /\ plant_command # <<>>
    /\ subscribed
    /\ outcome = "stored"
    /\ StartSeen
    /\ Len(packet_assemble) = Len(arrivals)
    /\ Len(arrivals) > 1
    /\ plant_state = Decoded(NoSpeedDoc)

\* C16: after any history, decode and other failures included, a complete cycle
\* delivered in order 0..12 whose joined payloads are a JSON document ends with
\* plant_state the decoded document and the document published, in the call of
\* marker 12.
C16_RecoversAfterFailure ==
    (Finalized /\ InOrderCycle /\ WellFormed(Concat(PayloadsOf(arrivals)))) =>
        /\ outcome = "published"
        /\ plant_state = Decoded(Concat(PayloadsOf(arrivals)))
        /\ mqtt_retained = <<StateTopic, JsonDumps(Decoded(Concat(PayloadsOf(arrivals))))>>

\* A cycle in order was decoded and published after an earlier call had ended
\* in a decode error and with another state held before.
C16_Witness ==
    /\ error_seen
    /\ outcome = "published"
    /\ InOrderCycle
    /\ udp_packet_seq = FinalMarker
    /\ plant_state = Decoded(FullDoc)
    /\ json_payload = FullDoc

\* C17: plant_state starts as the empty dict and changes only in a marker-12
\* call whose joined message decodes, to the decoded value of that message; a
\* marker-12 call whose joined message does not decode leaves plant_state as it
\* was, so plant_state is always the initial value or the value of the most
\* recent message that decoded.
C17_StateIsLastDecoded ==
    /\ plant_state = JDict(<<>>)
    /\ [][/\ plant_state' # plant_state =>
                 FinalCallStep /\ WellFormed(json_payload')
          /\ (FinalCallStep /\ WellFormed(json_payload')) =>
                 plant_state' = Decoded(json_payload')
          /\ (FinalCallStep /\ ~WellFormed(json_payload')) =>
                 plant_state' = plant_state]_vars

\* The last joined text failed to decode and plant_state is still the document
\* decoded before it.
C17_Witness ==
    /\ udp_packet_seq = FinalMarker
    /\ outcome = "JSONDecodeError logged"
    /\ json_payload # FullDoc
    /\ plant_state = Decoded(FullDoc)

\* C18: the plant_state topic is published to only in a marker-12 call that has
\* just assigned plant_state, with the serialisation of the assigned value, and
\* plant_state is never assigned without that publish: what the topic holds is
\* always the serialisation of the current plant_state.
C18_PublishFollowsAssignment ==
    /\ [](\/ mqtt_retained = <<>> /\ plant_state = JDict(<<>>)
          \/ mqtt_retained = <<StateTopic, JsonDumps(plant_state)>>)
    /\ [][/\ (plant_state' # plant_state \/ mqtt_retained' # mqtt_retained) =>
                 FinalCallStep /\ outcome' = "published"
          /\ (FinalCallStep /\ outcome' = "published") =>
                 /\ plant_state' = Decoded(json_payload')
                 /\ mqtt_retained' = <<StateTopic, JsonDumps(plant_state')>>]_vars

\* A document was published that replaced another one held and published before.
C18_Witness ==
    /\ udp_packet_seq = FinalMarker
    /\ outcome = "published"
    /\ plant_state = Decoded(NoSpeedDoc)
    /\ mqtt_retained = <<StateTopic, NoSpeedDoc>>
    /\ device_doc = NumberDoc

\* The calls since the last marker 0 brought no marker 12, or one as the last call.
UpToFirstFinal ==
    /\ StartSeen
    /\ \A i \in 1..(Len(arrivals) - 1) : arrivals[i][1] # FinalMarker

====
